---- MODULE Spec2Model ----
(***************************************************************************)
(* Model of chaos_kitten/paws/executor.py: the Executor class, an async    *)
(* HTTP client with a scoped session (__aenter__/__aexit__), a header      *)
(* builder (_build_headers) and a retrying request operation               *)
(* (execute_attack).                                                       *)
(*                                                                         *)
(* Conventions.  A Python optional value is None (the empty tuple) or      *)
(* Some(v) (a one-element tuple).  Text that the code only copies or       *)
(* concatenates is a TLA+ string; text that the code strips or upper-cases *)
(* (base_url, path, method) is a sequence of one-character strings.  A     *)
(* dict is a function from keys to values.  One step of the model is one   *)
(* uninterrupted run of a coroutine between two awaits of the asyncio      *)
(* event loop.  time.monotonic() is kept per call, in microseconds since   *)
(* the call began: the code only ever subtracts two readings of one call,  *)
(* and every await lasts its own time whatever the other calls do.         *)
(***************************************************************************)
EXTENDS Integers, Sequences, FiniteSets, TLC

VARIABLES
    base_url,     \* Executor.base_url
    auth_type,    \* Executor.auth_type
    auth_token,   \* Executor.auth_token
    rate_limit,   \* Executor.rate_limit
    timeout,      \* Executor.timeout
    client,       \* Executor._client: None or Some(index into sessions)
    sessions,     \* every httpx.AsyncClient constructed so far, in order
    scopes,       \* the caller's open "async with" blocks: the sessions their entries made
    calls         \* the execute_attack coroutines, one record of locals each

vars == <<base_url, auth_type, auth_token, rate_limit, timeout,
          client, sessions, scopes, calls>>

config == <<base_url, auth_type, auth_token, rate_limit, timeout>>

----------------------------------------------------------------------------
(* Bounds of the model. *)

MaxCalls == 1

MaxSessions == 2

----------------------------------------------------------------------------
(* Python values. *)

None == <<>>

Some(v) == <<v>>

\* Truth value of an optional string: None and "" are falsy.
TruthyStr(o) == o # None /\ o[1] # ""

\* Truth value of an optional dict: None and {} are falsy.
TruthyDict(o) == o # None /\ DOMAIN o[1] # {}

\* d1 overridden and extended by d2 (dict merge).
Merge(d1, d2) ==
    [k \in DOMAIN d1 \cup DOMAIN d2 |-> IF k \in DOMAIN d2 THEN d2[k] ELSE d1[k]]

RECURSIVE rstrip(_, _)
\* str.rstrip(ch): drop every trailing ch.
rstrip(s, ch) ==
    IF s # <<>> /\ s[Len(s)] = ch THEN rstrip(SubSeq(s, 1, Len(s) - 1), ch) ELSE s

RECURSIVE lstrip(_, _)
\* str.lstrip(ch): drop every leading ch.
lstrip(s, ch) ==
    IF s # <<>> /\ s[1] = ch THEN lstrip(Tail(s), ch) ELSE s

\* str.upper() on one character, for the letters the modelled methods use.
UpperChar(ch) ==
    CASE ch = "a" -> "A" [] ch = "c" -> "C" [] ch = "e" -> "E" [] ch = "g" -> "G"
      [] ch = "h" -> "H" [] ch = "o" -> "O" [] ch = "p" -> "P" [] ch = "s" -> "S"
      [] ch = "t" -> "T" [] ch = "u" -> "U"
      [] OTHER -> ch

\* str.upper().
upper(s) == [i \in DOMAIN s |-> UpperChar(s[i])]

----------------------------------------------------------------------------
(* Executor._build_headers, as a function of the two fields it reads. *)

\* A header builder that sends basic credentials under the Bearer scheme.
BuildHeaders_BasicAsBearer(at, tok) ==
    LET headers == [k \in {"User-Agent"} |-> "ChaosKitten/0.1.0"]
    IN  IF at \in {"bearer", "oauth", "basic"} /\ TruthyStr(tok)
        THEN Merge(headers, [k \in {"Authorization"} |-> "Bearer " \o tok[1]])
        ELSE headers

BuildHeaders(at, tok) ==
    LET headers == [k \in {"User-Agent"} |-> "ChaosKitten/0.1.0"]
    IN  IF at \in {"bearer", "oauth"} /\ TruthyStr(tok)
        THEN Merge(headers, [k \in {"Authorization"} |-> "Bearer " \o tok[1]])
        ELSE IF at = "basic" /\ TruthyStr(tok)
        THEN Merge(headers, [k \in {"Authorization"} |-> "Basic " \o tok[1]])
        ELSE headers

\* self._build_headers()
_build_headers == BuildHeaders(auth_type, auth_token)

----------------------------------------------------------------------------
(* Sessions (httpx.AsyncClient objects). *)

\* A guard that lets every call through.
ClientFalsy_Never(cl) == FALSE

\* "not self._client": None is falsy; an AsyncClient object is truthy, open or
\* closed.
ClientFalsy(cl) == cl = None

IsOpen(cl) == cl # None /\ sessions[cl[1]].state = "open"

LiveSessions == {i \in DOMAIN sessions : sessions[i].state = "open"}

\* httpx.AsyncClient(base_url=..., timeout=..., headers=...); depth records how
\* many of the caller's scopes were open when the session was made.
NewSession ==
    [state        |-> "open",
     base_url     |-> base_url,
     timeout      |-> timeout,
     headers     |-> _build_headers,
     aclose_calls |-> 0,
     depth        |-> Len(scopes)]

\* An exit that leaves the session as it is.
Aclose_Skipped(s) == s

\* A close that is counted and closes nothing.
Aclose_CountOnly(s) == [s EXCEPT !.aclose_calls = @ + 1]

\* await self._client.aclose(): closes the session; on a closed one it changes
\* nothing but the count of calls.
Aclose(s) == [s EXCEPT !.state = "closed", !.aclose_calls = @ + 1]

\* Every call that is suspended at an await when a scope exit runs notes it.
NoteExit(cs) ==
    [c \in DOMAIN cs |->
        IF cs[c].pc \in {"rate_sleep", "request", "backoff"}
        THEN [cs[c] EXCEPT !.interrupted = TRUE] ELSE cs[c]]

\* Executor.__aenter__
Enter ==
    /\ Len(sessions) < MaxSessions
    /\ sessions' = Append(sessions, NewSession)
    /\ client' = Some(Len(sessions) + 1)
    /\ scopes' = Append(scopes, Len(sessions) + 1)
    /\ UNCHANGED <<config, calls>>

\* Executor.__aexit__, run when the caller leaves an "async with" block.
Exit ==
    /\ scopes # <<>>
    /\ IF ~ClientFalsy(client)
       THEN sessions' = [sessions EXCEPT ![client[1]] = Aclose(@)]
       ELSE UNCHANGED sessions
    /\ scopes' = SubSeq(scopes, 1, Len(scopes) - 1)
    /\ calls' = NoteExit(calls)
    /\ UNCHANGED <<config, client>>

----------------------------------------------------------------------------
(* Executor.execute_attack: constants and the pieces of its body. *)

max_retries == 2

\* asyncio.sleep(0.5), in microseconds
BackoffMicros == 500000

\* A throttle that only zero switches off.
RateLimited_NonZero(rl) == rl # 0

\* if self.rate_limit > 0
RateLimited(rl) == rl > 0

\* 1.0 / self.rate_limit seconds, in microseconds
RateDelayMicros(rl) == 1000000 \div rl

\* An elapsed time counted from the beginning of the call.
ElapsedMs_SinceCallBegan(t0, t1) == t1 \div 1000

\* int(seconds * 1000) of a span given in microseconds
ElapsedMs(t0, t1) == (t1 - t0) \div 1000

\* A test of the method that forgets to fold its case.
BodyMethod_CaseSensitive(method) ==
    method \in {<<"P","O","S","T">>, <<"P","U","T">>, <<"P","A","T","C","H">>}

\* method.upper() in ["POST", "PUT", "PATCH"]
BodyMethod(method) ==
    upper(method) \in {<<"P","O","S","T">>, <<"P","U","T">>, <<"P","A","T","C","H">>}

\* A kwargs dict that leaves the headers argument out.
Kwargs_DropsHeaders(method, payload, headers) ==
    IF payload # None
    THEN IF BodyMethod(method)
         THEN [k \in {"json"} |-> payload[1]]
         ELSE [k \in {"params"} |-> payload[1]]
    ELSE <<>>

\* The kwargs dict built for self._client.request (lines 105-113).
Kwargs(method, payload, headers) ==
    LET k0 == <<>>
        k1 == IF TruthyDict(headers)
              THEN Merge(k0, [k \in {"headers"} |-> headers[1]]) ELSE k0
        k2 == IF payload # None
              THEN IF BodyMethod(method)
                   THEN Merge(k1, [k \in {"json"} |-> payload[1]])
                   ELSE Merge(k1, [k \in {"params"} |-> payload[1]])
              ELSE k1
    IN  k2

\* What one request on an open session can come to.  An httpx.RequestError is
\* any of its subclasses; two are modelled, a refused connection and a timeout.
StatusCodes == {200, 500}

RequestErrorKinds == {"ConnectError", "ReadTimeout"}

\* A handler that catches connection errors only.
IsRequestError_ConnectOnly(kind) == kind = "ConnectError"

\* except httpx.RequestError
IsRequestError(kind) == kind \in RequestErrorKinds

\* str(e)
ErrorText(kind) ==
    CASE kind = "ConnectError" -> "All connection attempts failed"
      [] kind = "ReadTimeout"  -> "The read operation timed out"
      [] OTHER                 -> kind

\* How long the request ran before it ended that way, in microseconds.
ResponseMicros == 20500

ConnectErrorMicros == 3500

\* A timeout ends the request after self.timeout seconds.
Duration(o) ==
    CASE o.type = "response"    -> ResponseMicros
      [] o.kind = "ReadTimeout" -> timeout * 1000000
      [] OTHER                  -> ConnectErrorMicros

\* A request whose session is still open when it ends returns a response or
\* raises an httpx.RequestError.  What a request in flight comes to when its
\* session is closed under it is the client library's business: it may still
\* return, raise a RequestError, or raise an error that is none ("ClosedError").
Outcomes(open) ==
    [type : {"response"}, status_code : StatusCodes, kind : {""}]
      \cup [type : {"error"}, status_code : {0}, kind : RequestErrorKinds]
      \cup (IF open THEN {}
            ELSE [type : {"error"}, status_code : {0}, kind : {"ClosedError"}])

\* The locals of one execute_attack coroutine and a log of what it did.
IdleCall ==
    [pc          |-> "idle",
     method      |-> <<>>,
     path        |-> <<>>,
     payload     |-> None,
     headers     |-> None,
     url         |-> <<>>,
     attempt     |-> 0,
     clock       |-> 0,
     start_time  |-> 0,
     sess        |-> None,
     outcome     |-> None,
     scope       |-> "",
     interrupted |-> FALSE,
     result      |-> None,
     raised      |-> "",
     log         |-> <<>>]

Event(kind, info) == [kind |-> kind, info |-> info]

\* A client that takes only statuses below 400 for responses.
Succeeded_BelowFourHundred(o) == o.type = "response" /\ o.status_code < 400

\* The request awaited at line 115 returns a response instead of raising.
Succeeded(o) == o.type = "response"

\* A test for the last attempt that is off by one.
LastAttempt_OffByOne(attempt) == attempt = max_retries + 1

\* A test for the last attempt that never says yes.
LastAttempt_Never(attempt) == attempt > max_retries

\* if attempt == max_retries
LastAttempt(attempt) == attempt = max_retries

\* str(response.url): the path joined to the session's base_url.
ResolvedUrl(cr) == sessions[cr.sess[1]].base_url \o <<"/">> \o cr.url

\* A response result that remembers that earlier attempts failed.
ResponseResult_KeepsError(cr, o, elapsed_ms) ==
    IF cr.attempt = 0
    THEN [status_code   |-> o.status_code,
          response_body |-> "body",
          elapsed_ms    |-> elapsed_ms,
          headers       |-> [k \in {"content-type"} |-> "text/plain"],
          url           |-> ResolvedUrl(cr)]
    ELSE [status_code   |-> o.status_code,
          error         |-> "retried",
          response_body |-> "body",
          elapsed_ms    |-> elapsed_ms,
          headers       |-> [k \in {"content-type"} |-> "text/plain"],
          url           |-> ResolvedUrl(cr)]

\* The dict returned at lines 118-124.
ResponseResult(cr, o, elapsed_ms) ==
    [status_code   |-> o.status_code,
     response_body |-> "body",
     elapsed_ms    |-> elapsed_ms,
     headers       |-> [k \in {"content-type"} |-> "text/plain"],
     url           |-> ResolvedUrl(cr)]

\* A failure result that reports the path as it was passed.
FailureResult_RawPath(cr, o, elapsed_ms) ==
    [status_code   |-> 0,
     error         |-> ErrorText(o.kind),
     elapsed_ms    |-> elapsed_ms,
     response_body |-> "",
     url           |-> cr.path]

\* The dict returned at lines 129-135.
FailureResult(cr, o, elapsed_ms) ==
    [status_code   |-> 0,
     error         |-> ErrorText(o.kind),
     elapsed_ms    |-> elapsed_ms,
     response_body |-> "",
     url           |-> cr.url]

\* The headers of a request sent on the current session: the session's own,
\* overridden and extended by the headers argument of the request.
SentHeaders(kwargs) ==
    IF IsOpen(client)
    THEN Some(Merge(sessions[client[1]].headers,
                    IF "headers" \in DOMAIN kwargs THEN kwargs["headers"] ELSE <<>>))
    ELSE None

\* One pass of the loop body up to the await of self._client.request
\* (lines 99-115), for the call record cr with its attempt number set.
\* self._client is read anew on every pass.  A request on a closed session is
\* refused by the client library with an error that is no httpx.RequestError
\* ("ClosedError"); on None the attribute lookup fails.
BeginAttempt(cr) ==
    LET kwargs  == Kwargs(cr.method, cr.payload, cr.headers)
        request == [method |-> cr.method, url |-> cr.url, kwargs |-> kwargs,
                    open |-> IsOpen(client), sent_headers |-> SentHeaders(kwargs)]
        cr1     == [cr EXCEPT !.start_time = cr.clock,
                              !.log = Append(@, Event("attempt", request))]
    IN  IF client = None
        THEN [cr1 EXCEPT !.pc = "raised", !.raised = "AttributeError"]
        ELSE IF ~IsOpen(client)
        THEN [cr1 EXCEPT !.pc = "raised", !.raised = "ClosedError"]
        ELSE [cr1 EXCEPT !.pc = "request", !.sess = client]

----------------------------------------------------------------------------
(* Executor.execute_attack, one action per run between two awaits. *)

\* Where the caller stands when a call begins: no scope entered yet ("never"),
\* inside a scope whose session is open ("active"), after every scope entered
\* was exited ("exited"), or inside an outer scope after an inner one's exit
\* closed the session ("nested-exited").
ScopeNow ==
    IF sessions = <<>> THEN "never"
    ELSE IF scopes = <<>> THEN "exited"
    ELSE IF IsOpen(client) THEN "active"
    ELSE "nested-exited"

\* Lines 87-94, and lines 98-115 too when no rate-limit sleep suspends the call.
\* Calls are numbered in the order they begin.
ExecuteAttack(c, method, path, payload, headers) ==
    /\ calls[c].pc = "idle"
    /\ c > 1 => calls[c - 1].pc # "idle"
    /\ LET cr == [calls[c] EXCEPT !.method = method, !.path = path,
                                  !.payload = payload, !.headers = headers,
                                  !.scope = ScopeNow]
       IN  IF ClientFalsy(client)
           THEN calls' = [calls EXCEPT ![c] =
                    [cr EXCEPT !.pc = "raised", !.raised = "UninitializedSession"]]
           ELSE LET cr1 == [cr EXCEPT !.url = lstrip(path, "/")]
                IN  IF RateLimited(rate_limit)
                    THEN calls' = [calls EXCEPT ![c] =
                             [cr1 EXCEPT !.pc = "rate_sleep",
                                         !.log = Append(@,
                                            Event("rate", RateDelayMicros(rate_limit)))]]
                    ELSE calls' = [calls EXCEPT ![c] = BeginAttempt(cr1)]
    /\ UNCHANGED <<config, client, sessions, scopes>>

\* A resumption after the rate-limit sleep that forgets the session.
RateSleepDone_DropsSession(c) ==
    /\ calls[c].pc = "rate_sleep"
    /\ calls' = [calls EXCEPT ![c] =
          BeginAttempt([calls[c] EXCEPT !.clock = @ + RateDelayMicros(rate_limit)])]
    /\ client' = None
    /\ UNCHANGED <<config, sessions, scopes>>

\* The rate-limit sleep of line 94 ends; lines 98-115 for attempt 0.
RateSleepDone(c) ==
    /\ calls[c].pc = "rate_sleep"
    /\ calls' = [calls EXCEPT ![c] =
          BeginAttempt([calls[c] EXCEPT !.clock = @ + RateDelayMicros(rate_limit)])]
    /\ UNCHANGED <<config, client, sessions, scopes>>

\* The request of line 115 ends with outcome o; lines 116-136 up to the next await.
RequestDone(c, o) ==
    /\ calls[c].pc = "request"
    /\ o \in Outcomes(IsOpen(calls[c].sess))
    /\ LET cr         == [calls[c] EXCEPT !.clock = @ + Duration(o),
                                          !.outcome = Some(o),
                                          !.log = Append(@, Event(o.type, None))]
           elapsed_ms == ElapsedMs(cr.start_time, cr.clock)
       IN  calls' = [calls EXCEPT ![c] =
             IF Succeeded(o)
             THEN [cr EXCEPT !.pc = "returned",
                             !.result = Some(ResponseResult(cr, o, elapsed_ms))]
             ELSE IF ~IsRequestError(o.kind)
             THEN [cr EXCEPT !.pc = "raised", !.raised = o.kind]
             ELSE IF LastAttempt(cr.attempt)
             THEN [cr EXCEPT !.pc = "returned",
                             !.result = Some(FailureResult(cr, o, elapsed_ms))]
             ELSE [cr EXCEPT !.pc = "backoff",
                             !.log = Append(@, Event("backoff", BackoffMicros))]]
    /\ UNCHANGED <<config, client, sessions, scopes>>

\* A loop whose pass counter is one counter of the Executor, shared by its calls.
BackoffDone_SharedCounter(c) ==
    /\ calls[c].pc = "backoff"
    /\ LET cr     == [calls[c] EXCEPT !.clock = @ + BackoffMicros]
           shared == CHOOSE m \in {calls[d].attempt : d \in DOMAIN calls} :
                         \A d \in DOMAIN calls : calls[d].attempt <= m
       IN  calls' = [calls EXCEPT ![c] =
             IF shared + 1 <= max_retries
             THEN BeginAttempt([cr EXCEPT !.attempt = shared + 1])
             ELSE [cr EXCEPT !.pc = "returned", !.result = None]]
    /\ UNCHANGED <<config, client, sessions, scopes>>

\* The backoff sleep of line 136 ends; the loop goes on to its next pass or ends.
BackoffDone(c) ==
    /\ calls[c].pc = "backoff"
    /\ LET cr == [calls[c] EXCEPT !.clock = @ + BackoffMicros]
       IN  calls' = [calls EXCEPT ![c] =
             IF cr.attempt + 1 <= max_retries
             THEN BeginAttempt([cr EXCEPT !.attempt = @ + 1])
             ELSE [cr EXCEPT !.pc = "returned", !.result = None]]
    /\ UNCHANGED <<config, client, sessions, scopes>>

----------------------------------------------------------------------------
(* Construction (Executor.__init__), the callers and the specifications. *)

InitWith(urls, types, tokens, limits, timeouts) ==
    /\ base_url \in {rstrip(u, "/") : u \in urls}
    /\ auth_type \in types
    /\ auth_token \in tokens
    /\ rate_limit \in limits
    /\ timeout \in timeouts
    /\ client = None
    /\ sessions = <<>>
    /\ scopes = <<>>
    /\ calls = [c \in 1..MaxCalls |-> IdleCall]

\* The steps of an Executor used by callers that run up to n calls, with
\* arguments drawn from args.
NextWith(n, args) ==
    \/ Enter
    \/ Exit
    \/ \E c \in 1..n, a \in args :
          ExecuteAttack(c, a.method, a.path, a.payload, a.headers)
    \/ \E c \in 1..n : RateSleepDone(c)
    \/ \E c \in 1..n, o \in Outcomes(FALSE) : RequestDone(c, o)
    \/ \E c \in 1..n : BackoffDone(c)

BaseUrls == {<<"h","/">>}

RateLimits == {-1, 0, 2}

Timeouts == {1}

\* Spec: up to MaxCalls calls at a time, with one choice of arguments.
Args ==
    {[method |-> <<"G","E","T">>, path |-> <<"/","a">>,
      payload |-> None, headers |-> None]}

Init == InitWith(BaseUrls, {"bearer"}, {Some("tok")}, RateLimits, Timeouts)

Next == NextWith(MaxCalls, Args)

Spec == Init /\ [][Next]_vars

\* SpecSingle: one call, every kind of argument and of authentication.
Methods == {<<"G","E","T">>, <<"p","o","s","t">>, <<"P","a","t","c","h">>}

Paths == {<<"/","a">>, <<"a">>}

Payloads == {None, Some([q |-> "x"])}

HeaderArgs == {None, Some([Cookie |-> "c"])}

AllArgs == [method : Methods, path : Paths, payload : Payloads, headers : HeaderArgs]

AuthTypes == {"none", "bearer", "basic", "oauth", "digest"}

AuthTokens == {None, Some(""), Some("tok")}

InitSingle == InitWith(BaseUrls, AuthTypes, AuthTokens, {0, 2}, Timeouts)

NextSingle == NextWith(1, AllArgs)

SpecSingle == InitSingle /\ [][NextSingle]_vars

\* SpecArgs: one call, with every shape of method, path, payload and headers.
RichMethods ==
    {<<"G","E","T">>, <<"p","o","s","t">>, <<"P","a","t","c","h">>,
     <<"p","u","t">>, <<"D","E","L","E","T","E">>}

RichPaths == {<<"/","a">>, <<"a">>, <<"/","/","a">>}

RichPayloads == {None, Some(<<>>), Some([q |-> "x"])}

RichHeaderArgs ==
    {None, Some(<<>>), Some([Cookie |-> "c"]),
     Some([k \in {"User-Agent"} |-> "probe"])}

RichArgs ==
    [method : RichMethods, path : RichPaths,
     payload : RichPayloads, headers : RichHeaderArgs]

InitArgs == InitWith(BaseUrls, {"bearer"}, {Some("tok")}, {0, 2}, Timeouts)

NextArgs == NextWith(1, RichArgs)

SpecArgs == InitArgs /\ [][NextArgs]_vars

\* SpecPair: up to MaxPair calls at a time, before and inside a single scope
\* that stays open, with or without headers of their own.
MaxPair == 2

PairArgs ==
    {[method |-> <<"G","E","T">>, path |-> <<"/","a">>, payload |-> None, headers |-> h] :
        h \in {None, Some([k \in {"User-Agent", "Cookie"} |-> "probe"])}}

InitPair ==
    /\ base_url \in {rstrip(u, "/") : u \in BaseUrls}
    /\ auth_type = "bearer"
    /\ auth_token = Some("tok")
    /\ rate_limit \in {0, 2}
    /\ timeout \in Timeouts
    /\ client = None
    /\ sessions = <<>>
    /\ scopes = <<>>
    /\ calls = [c \in 1..MaxPair |-> IdleCall]

\* The one scope of the behaviour is entered.
EnterScope == sessions = <<>> /\ Enter

NextPair ==
    \/ EnterScope
    \/ \E c \in 1..MaxPair, a \in PairArgs :
          ExecuteAttack(c, a.method, a.path, a.payload, a.headers)
    \/ \E c \in 1..MaxPair : RateSleepDone(c)
    \/ \E c \in 1..MaxPair, o \in Outcomes(FALSE) : RequestDone(c, o)
    \/ \E c \in 1..MaxPair : BackoffDone(c)

SpecPair == InitPair /\ [][NextPair]_vars

----------------------------------------------------------------------------
(* What a call did, read off its record. *)

Calls == DOMAIN calls

Finished(c) == calls[c].pc \in {"returned", "raised"}

\* The kinds of the events of call c, in order.
Kinds(c) == [i \in DOMAIN calls[c].log |-> calls[c].log[i].kind]

\* The positions of the events of kind k in the log of call c.
At(c, k) == {i \in DOMAIN calls[c].log : calls[c].log[i].kind = k}

Count(c, k) == Cardinality(At(c, k))

\* The call began inside a scope whose session was open, and no scope exit ran
\* while it was suspended.
InScope(c) == calls[c].scope = "active" /\ ~calls[c].interrupted

\* The events of a call whose three attempts all failed, after the rate-limit
\* delay if there is one.
ThreeFailures ==
    <<"attempt", "error", "backoff", "attempt", "error", "backoff", "attempt", "error">>

----------------------------------------------------------------------------
(* Claims. *)

\* C1: a call on an Executor whose scope was never entered raises the
\* uninitialized-session error, having issued no request attempt and slept
\* neither for rate limiting nor for backoff.
C1_NeverEnteredRaises ==
    \A c \in Calls :
        calls[c].scope = "never" =>
            /\ calls[c].pc = "raised"
            /\ calls[c].raised = "UninitializedSession"
            /\ calls[c].log = <<>>
            /\ calls[c].result = None

C1_Witness ==
    \E c \in Calls :
        /\ calls[c].scope = "never"
        /\ calls[c].pc = "raised"
        /\ rate_limit > 0
        /\ calls[c].payload # None
        /\ calls[c].headers # None

\* C2: a call made after the scope was entered and exited, before any new
\* entry, raises the uninitialized-session error and issues no request attempt
\* on the closed session.
C2_ExitedRaisesUninitialized ==
    \A c \in Calls :
        calls[c].scope = "exited" =>
            /\ calls[c].pc = "raised"
            /\ calls[c].raised = "UninitializedSession"
            /\ At(c, "attempt") = {}

\* C3: a call inside a scope whose every attempt failed at the network level
\* made exactly 3 attempts with exactly 2 backoff waits of 0.5 s, one between
\* each two consecutive attempts, and returned status_code 0 with the text of
\* the last failure as error.
C3_ThreeAttemptsTwoBackoffs ==
    \A c \in Calls :
        (InScope(c) /\ Finished(c) /\ At(c, "response") = {}) =>
            /\ Kinds(c) = (IF rate_limit > 0 THEN <<"rate">> ELSE <<>>) \o ThreeFailures
            /\ \A i \in At(c, "backoff") : calls[c].log[i].info = 500000
            /\ calls[c].pc = "returned"
            /\ calls[c].result # None
            /\ calls[c].result[1].status_code = 0
            /\ calls[c].outcome[1].type = "error"
            /\ calls[c].result[1].error = ErrorText(calls[c].outcome[1].kind)

C3_Witness ==
    \E c \in Calls :
        /\ InScope(c) /\ calls[c].pc = "returned"
        /\ calls[c].result[1].status_code = 0
        /\ Count(c, "attempt") = 3 /\ Count(c, "backoff") = 2
        /\ calls[c].outcome[1].kind = "ReadTimeout"

\* C4: a response, whatever its status code, ends the call at once: it is the
\* last event of the call, which returned that response's status code with no
\* error field; a first response (such as a 500) means exactly one attempt.
C4_ResponseReturnsAtOnce ==
    \A c \in Calls :
        \A i \in At(c, "response") :
            /\ i = Len(calls[c].log)
            /\ calls[c].pc = "returned"
            /\ calls[c].result # None
            /\ calls[c].result[1].status_code = calls[c].outcome[1].status_code
            /\ "error" \notin DOMAIN calls[c].result[1]
            /\ At(c, "error") = {} => Count(c, "attempt") = 1

C4_Witness ==
    \E c \in Calls :
        /\ InScope(c) /\ calls[c].pc = "returned"
        /\ calls[c].result[1].status_code = 500
        /\ Count(c, "attempt") = 1 /\ Count(c, "backoff") = 0

\* C5: with rate_limit > 0 every request attempt of a call, retries included,
\* is immediately preceded by its own rate-limit delay of 1.0 / rate_limit
\* seconds, so a call has as many rate-limit delays as attempts.
C5_RateDelayBeforeEveryAttempt ==
    \A c \in Calls :
        rate_limit > 0 =>
            /\ \A i \in At(c, "attempt") :
                  /\ i > 1
                  /\ calls[c].log[i - 1].kind = "rate"
                  /\ calls[c].log[i - 1].info = 1000000 \div rate_limit
            /\ Finished(c) => Count(c, "rate") = Count(c, "attempt")

\* C6: with rate_limit <= 0 a call never sleeps for rate limiting; apart from
\* its requests it only sleeps the 0.5 s backoff, each right after a failed
\* attempt that is not the last one allowed.
C6_NoRateDelayWhenDisabled ==
    \A c \in Calls :
        rate_limit <= 0 =>
            /\ At(c, "rate") = {}
            /\ \A i \in At(c, "backoff") :
                  /\ i > 1
                  /\ calls[c].log[i - 1].kind = "error"
                  /\ calls[c].log[i].info = 500000
                  /\ Cardinality({j \in At(c, "attempt") : j < i}) <= 2

C6_Witness ==
    \E c \in Calls :
        /\ rate_limit < 0
        /\ calls[c].pc = "returned"
        /\ Count(c, "attempt") = 3 /\ Count(c, "backoff") = 2

\* C7: a call inside a scope, with no scope exit while it runs, never ends by
\* raising: whatever its attempts came to, it ends by returning a record,
\* either a response result or a status_code 0 result.
C7_NetworkFailuresAreReturned ==
    \A c \in Calls :
        (InScope(c) /\ Finished(c)) =>
            /\ calls[c].pc = "returned"
            /\ calls[c].raised = ""
            /\ calls[c].result # None
            /\ \/ /\ calls[c].outcome[1].type = "response"
                  /\ calls[c].result[1].status_code = calls[c].outcome[1].status_code
               \/ /\ calls[c].outcome[1].type = "error"
                  /\ calls[c].result[1].status_code = 0

C7_Witness ==
    \E c \in Calls :
        /\ InScope(c) /\ calls[c].pc = "returned"
        /\ calls[c].attempt = 1
        /\ calls[c].outcome[1].type = "response"
        /\ calls[c].clock > 1000000

\* The sessions whose scope has been exited.
Exited == {i \in DOMAIN sessions : \A k \in DOMAIN scopes : scopes[k] # i}

\* The scope that made session i is one entry followed by one exit: it was not
\* entered inside another scope, and no scope was entered inside it.
Paired(i) ==
    /\ sessions[i].depth = 0
    /\ (i + 1) \in DOMAIN sessions => sessions[i + 1].depth = 0

\* C8: the session made at the entry of a properly paired scope is open until
\* the scope's exit and closed exactly once by it, whatever the calls inside
\* the scope did.
C8_PairedScopeClosesOnce ==
    \A i \in DOMAIN sessions :
        Paired(i) =>
            IF i \in Exited
            THEN sessions[i].state = "closed" /\ sessions[i].aclose_calls = 1
            ELSE sessions[i].state = "open" /\ sessions[i].aclose_calls = 0

C8_Witness ==
    /\ 1 \in Exited /\ Paired(1)
    /\ sessions[1].state = "closed" /\ sessions[1].aclose_calls = 1
    /\ \E c \in Calls :
          /\ InScope(c) /\ calls[c].pc = "returned"
          /\ calls[c].result[1].status_code = 0

\* C9 as claimed: in every reachable state, re-entry included, at most one
\* session made by the Executor is live.
C9_AtMostOneLive == Cardinality(LiveSessions) <= 1

\* No scope was ever entered inside another scope of this Executor.
NeverNested == \A i \in DOMAIN sessions : sessions[i].depth = 0

\* C9 as amended: as long as every scope entry was made after the previous
\* scope's exit, at most one session made by the Executor is live.
C9_AtMostOneLiveUnlessNested == NeverNested => Cardinality(LiveSessions) <= 1

C9_Witness ==
    /\ Len(sessions) = 2 /\ NeverNested
    /\ LiveSessions = {2}

\* C10: the headers of every session are the fixed User-Agent plus an
\* Authorization header that is "Bearer <token>" exactly for bearer or oauth
\* with a non-empty token, "Basic <token>" exactly for basic with a non-empty
\* token, and absent otherwise; they depend on auth_type and auth_token only.
C10_HeadersByAuth ==
    \A i \in DOMAIN sessions :
        LET h        == sessions[i].headers
            hasToken == auth_token # None /\ auth_token[1] # ""
            auth     == IF "Authorization" \in DOMAIN h
                        THEN Some(h["Authorization"]) ELSE None
        IN  /\ "User-Agent" \in DOMAIN h
            /\ h["User-Agent"] = "ChaosKitten/0.1.0"
            /\ DOMAIN h \subseteq {"User-Agent", "Authorization"}
            /\ (hasToken /\ auth_type \in {"bearer", "oauth"})
                  <=> (auth # None /\ auth = Some("Bearer " \o auth_token[1]))
            /\ (hasToken /\ auth_type = "basic")
                  <=> (auth # None /\ auth = Some("Basic " \o auth_token[1]))
            /\ (~hasToken \/ auth_type \notin {"bearer", "oauth", "basic"})
                  <=> auth = None
            /\ \A j \in DOMAIN sessions : sessions[j].headers = h

C10_Witness ==
    /\ auth_type = "basic" /\ auth_token = Some("tok")
    /\ Len(sessions) = 2
    /\ sessions[2].headers["Authorization"] = "Basic tok"

\* The modelled methods that are POST, PUT or PATCH when case is ignored.
BodyVerbs == {<<"p","o","s","t">>, <<"P","a","t","c","h">>, <<"p","u","t">>}

\* C11: on every attempt a non-null payload goes into the request body and not
\* into the query parameters when the method is POST, PUT or PATCH in any
\* case, into the query parameters and not into the body for any other
\* method, and a null payload goes nowhere.
C11_PayloadPlacement ==
    \A c \in Calls :
        \A i \in At(c, "attempt") :
            LET kw == calls[c].log[i].info.kwargs
            IN  IF calls[c].payload = None
                THEN "json" \notin DOMAIN kw /\ "params" \notin DOMAIN kw
                ELSE IF calls[c].method \in BodyVerbs
                THEN /\ "json" \in DOMAIN kw /\ kw["json"] = calls[c].payload[1]
                     /\ "params" \notin DOMAIN kw
                ELSE /\ "params" \in DOMAIN kw /\ kw["params"] = calls[c].payload[1]
                     /\ "json" \notin DOMAIN kw

C11_Witness ==
    \E c \in Calls :
        /\ calls[c].method = <<"P","a","t","c","h">>
        /\ calls[c].payload = Some([q |-> "x"])
        /\ Count(c, "attempt") = 3
        /\ \A i \in At(c, "attempt") : "json" \in DOMAIN calls[c].log[i].info.kwargs

\* C12: elapsed_ms of a returned result is the whole milliseconds that the
\* last attempt's request took, from that attempt's start timestamp to the end
\* of its request; earlier attempts, backoff waits and the rate-limit delay
\* are not in it, whether the result is a response or a status_code 0 result.
C12_ElapsedIsLastAttempt ==
    \A c \in Calls :
        (calls[c].pc = "returned" /\ calls[c].result # None) =>
            LET last == Duration(calls[c].outcome[1])
            IN  /\ calls[c].result[1].elapsed_ms = last \div 1000
                /\ calls[c].clock - calls[c].start_time = last
                /\ calls[c].clock >=
                      last + Count(c, "backoff") * 500000
                           + (IF rate_limit > 0 THEN 1000000 \div rate_limit ELSE 0)

C12_Witness ==
    \E c \in Calls :
        /\ calls[c].pc = "returned" /\ calls[c].attempt = 2
        /\ rate_limit = 2
        /\ calls[c].result[1].status_code = 200
        /\ calls[c].result[1].elapsed_ms = 20
        /\ calls[c].clock > 1500000

\* u is p without its leading slashes.
Unslashed(p, u) ==
    /\ u = <<>> \/ u[1] # "/"
    /\ Len(u) <= Len(p)
    /\ u = SubSeq(p, Len(p) - Len(u) + 1, Len(p))
    /\ \A i \in 1..(Len(p) - Len(u)) : p[i] = "/"

\* C13: every returned result is a response result (the response's status
\* code, response headers, no error) or a failure result (status_code 0, an
\* error, an empty body, no headers, the path without leading slashes as url);
\* error is present exactly when status_code is 0 and headers exactly when a
\* response was obtained.
C13_TwoResultShapes ==
    \A c \in Calls :
        calls[c].pc = "returned" =>
            /\ calls[c].result # None
            /\ LET r == calls[c].result[1]
                   o == calls[c].outcome[1]
               IN  /\ IF o.type = "response"
                      THEN /\ DOMAIN r = {"status_code", "response_body",
                                          "elapsed_ms", "headers", "url"}
                           /\ r.status_code = o.status_code
                      ELSE /\ DOMAIN r = {"status_code", "error", "elapsed_ms",
                                          "response_body", "url"}
                           /\ r.status_code = 0
                           /\ r.response_body = ""
                           /\ Unslashed(calls[c].path, r.url)
                   /\ "error" \in DOMAIN r <=> r.status_code = 0
                   /\ "headers" \in DOMAIN r <=> o.type = "response"

C13_Witness ==
    \E c \in Calls :
        /\ calls[c].pc = "returned"
        /\ calls[c].path = <<"/","/","a">>
        /\ calls[c].result[1].status_code = 0
        /\ calls[c].result[1].url = <<"a">>
        /\ "headers" \notin DOMAIN calls[c].result[1]

\* The headers argument of call c as a dict, empty when it is None.
OwnHeaders(c) == IF calls[c].headers = None THEN <<>> ELSE calls[c].headers[1]

\* C14: the default headers of a session are those built at scope entry and
\* stay so; every attempt of a call is sent with the defaults overridden and
\* extended by that call's own headers argument, and with nothing of any
\* other call's headers: a call without headers of its own sends exactly the
\* defaults, whatever the calls before it passed.
C14_HeadersPerCall ==
    /\ \A i \in DOMAIN sessions :
          /\ DOMAIN sessions[i].headers = {"User-Agent", "Authorization"}
          /\ sessions[i].headers["User-Agent"] = "ChaosKitten/0.1.0"
          /\ sessions[i].headers["Authorization"] = "Bearer tok"
    /\ \A c \in Calls :
          \A i \in At(c, "attempt") :
              LET sent == calls[c].log[i].info.sent_headers
                  own  == OwnHeaders(c)
                  dflt == sessions[1].headers
              IN  /\ sent # None
                  /\ DOMAIN sent[1] = DOMAIN dflt \cup DOMAIN own
                  /\ \A k \in DOMAIN sent[1] :
                        sent[1][k] = IF k \in DOMAIN own THEN own[k] ELSE dflt[k]

C14_Witness ==
    /\ Len(sessions) = 1 /\ DOMAIN calls = 1..2
    /\ calls[1].headers # None /\ calls[1].pc = "returned"
    /\ calls[1].log[Len(calls[1].log) - 1].info.sent_headers[1]["User-Agent"] = "probe"
    /\ calls[2].headers = None /\ calls[2].pc = "request"
    /\ calls[2].log[Len(calls[2].log)].info.sent_headers = Some(sessions[1].headers)

\* C15: no step of any operation changes the configuration (base URL, auth
\* type, auth token, rate limit, timeout); a step of execute_attack (one that
\* neither enters nor leaves a scope) also leaves the session reference and
\* the sessions themselves as they were: the only thing it changes is the
\* call's own local state.
C15_ConfigAndSessionKept ==
    [][/\ config' = config
       /\ scopes' = scopes => client' = client /\ sessions' = sessions]_vars

C15_Witness ==
    /\ Exited = {1}
    /\ client = Some(1)
    /\ \E c \in Calls :
          /\ calls[c].pc = "returned"
          /\ Count(c, "rate") = 1
          /\ Count(c, "attempt") = 3

\* C16: a call makes at most 3 request attempts and at most 2 backoff waits,
\* and once it has finished it has either returned a result record or raised
\* the uninitialized-session error.
C16_FinishesByResultOrUninitialized ==
    \A c \in Calls :
        /\ Count(c, "attempt") <= 3
        /\ Count(c, "backoff") <= 2
        /\ Finished(c) =>
              \/ calls[c].pc = "returned" /\ calls[c].result # None
              \/ calls[c].pc = "raised" /\ calls[c].raised = "UninitializedSession"

\* C17: a call begun inside an active scope, whatever scope entries and exits
\* run while it is suspended at its rate-limit delay or at a backoff wait,
\* raises no fault other than the uninitialized-session error when it resumes
\* and issues its next request (its log then ends with that attempt).
C17_OnlyUninitializedEscapes ==
    \A c \in Calls :
        /\ calls[c].scope = "active"
        /\ calls[c].pc = "raised"
        /\ calls[c].log # <<>>
        /\ calls[c].log[Len(calls[c].log)].kind = "attempt"
        => calls[c].raised = "UninitializedSession"

\* C18: a call that obtained a response after k = 1 or 2 attempts failed at the
\* network level (connection failure or timeout alike) returned that
\* response's status code, with no error field and with the fields and the
\* elapsed time of a response obtained at once, after exactly k + 1 attempts
\* and exactly k backoff waits, each failure followed by one backoff.
C18_ResponseAfterFailures ==
    \A c \in Calls :
        (At(c, "response") # {} /\ Count(c, "error") \in {1, 2}) =>
            LET k   == Count(c, "error")
                log == calls[c].log
            IN  /\ calls[c].pc = "returned"
                /\ calls[c].result # None
                /\ calls[c].outcome[1].type = "response"
                /\ calls[c].result[1].status_code = calls[c].outcome[1].status_code
                /\ DOMAIN calls[c].result[1] =
                      {"status_code", "response_body", "elapsed_ms", "headers", "url"}
                /\ calls[c].result[1].elapsed_ms = 20
                /\ Count(c, "attempt") = k + 1
                /\ Count(c, "backoff") = k
                /\ \A i \in At(c, "error") :
                      /\ log[i - 1].kind = "attempt"
                      /\ log[i + 1].kind = "backoff"
                      /\ log[i + 2].kind = "attempt"
                /\ log[Len(log)].kind = "response"

\* Two timeouts, then a 200.
C18_Witness ==
    \E c \in Calls :
        /\ calls[c].pc = "returned"
        /\ rate_limit <= 0
        /\ calls[c].result[1].status_code = 200
        /\ Count(c, "error") = 2
        /\ calls[c].clock = 2 * (timeout * 1000000) + 2 * 500000 + 20500

\* The number of attempts of call c begun before event i of its log.
AttemptsBefore(c, i) == Cardinality({j \in At(c, "attempt") : j < i})

\* C19: a backoff wait of 0.5 s comes right after a failed first or second
\* attempt and nowhere else, and each such network-level failure is followed
\* by one (a fault that is raised out of the call is not one); an attempt other than the first starts right after a backoff wait;
\* nothing follows a response or the failure of the third attempt; the wait
\* is 500000 microseconds after the first failure and after the second.
C19_BackoffAfterEachRetriedFailure ==
    \A c \in Calls :
        LET log == calls[c].log
        IN  /\ \A i \in At(c, "backoff") :
                  /\ i > 1
                  /\ log[i - 1].kind = "error"
                  /\ AttemptsBefore(c, i) \in {1, 2}
                  /\ log[i].info = 500000
                  /\ i < Len(log) => log[i + 1].kind = "attempt"
                  /\ i = Len(log) => calls[c].pc = "backoff"
            /\ \A i \in At(c, "error") :
                  IF AttemptsBefore(c, i) = 3 \/ (calls[c].pc = "raised" /\ i = Len(log))
                  THEN i = Len(log)
                  ELSE i < Len(log) /\ log[i + 1].kind = "backoff"
            /\ \A i \in At(c, "attempt") :
                  AttemptsBefore(c, i) > 0 => log[i - 1].kind = "backoff"
            /\ \A i \in At(c, "response") : i = Len(log)
            /\ calls[c].pc = "backoff" => log # <<>> /\ log[Len(log)].kind = "backoff"

\* A call in its second backoff wait.
C19_Witness ==
    \E c \in Calls :
        /\ calls[c].pc = "backoff"
        /\ Count(c, "backoff") = 2
        /\ Count(c, "error") = 2

\* The outcomes (responses and failures) that call c has had so far.
OutcomesOf(c) == At(c, "response") \cup At(c, "error")

\* C20: with several calls running at once inside one open scope, each call
\* begun in that scope has at most one request in flight (an attempt is followed by its outcome
\* before the next attempt begins, and one is in flight exactly while the call
\* waits for its request), makes at most 3 attempts, counts its own attempts
\* only, and returns a result made of its own last outcome and its own
\* arguments; a step of one call changes nothing of any other call.
C20_CallsAreIndependent ==
    /\ [](\A c \in Calls : InScope(c) =>
            LET log == calls[c].log
            IN  /\ \A i \in At(c, "attempt") :
                      i < Len(log) => log[i + 1].kind \in {"response", "error"}
                /\ Count(c, "attempt") - Cardinality(OutcomesOf(c)) =
                      (IF calls[c].pc = "request" THEN 1 ELSE 0)
                /\ Count(c, "attempt") <= 3
                /\ Count(c, "attempt") > 0 => calls[c].attempt = Count(c, "attempt") - 1
                /\ Finished(c) =>
                      /\ calls[c].pc = "returned" /\ calls[c].result # None
                      /\ Count(c, "attempt") = Count(c, "error") + Count(c, "response")
                      /\ Count(c, "response") <= 1
                      /\ Count(c, "response") = 0 => Count(c, "error") = 3
                      /\ calls[c].result[1].status_code = calls[c].outcome[1].status_code
                      /\ calls[c].result[1].elapsed_ms = Duration(calls[c].outcome[1]) \div 1000
                      /\ Count(c, "response") = 0 =>
                            /\ calls[c].result[1].error = ErrorText(calls[c].outcome[1].kind)
                            /\ Unslashed(calls[c].path, calls[c].result[1].url))
    /\ [][\A c, d \in Calls :
             (c # d /\ calls'[c] # calls[c]) => calls'[d] = calls[d]]_vars

\* Two requests in flight at once, of calls that stand at different attempts.
C20_Witness ==
    /\ DOMAIN calls = 1..2
    /\ InScope(1) /\ InScope(2)
    /\ calls[1].pc = "request" /\ calls[1].attempt = 2
    /\ calls[2].pc = "request" /\ calls[2].attempt = 0

====
